---- MODULE Spec2Model ----
(***************************************************************************)
(* Model of glot-snippets-migration-tool (src/src/main.rs): the pagination *)
(* driver process_loop, the page fetcher get_documents, the per-page       *)
(* transactional writer process_rows and the pure normalize_language.      *)
(*                                                                         *)
(* Strings that the code inspects character by character (language tags,   *)
(* titles, file names) are sequences of one-character strings; NUL stands  *)
(* for the null byte.  Natural keys (_id) are naturals standing for the    *)
(* ids in the collation order of the listing; the design document, which   *)
(* the listing returns first, has key 0.                                   *)
(***************************************************************************)
EXTENDS Integers, Sequences, FiniteSets, TLC

\* ------------------------------------------------------------------ bounds
\* Largest number of non-header documents of the store.
MaxDocs == 3
\* How many times the program is started (the first run and the restarts).
MaxRuns == 2
\* The page size that process_loop passes to get_documents (1000 in the
\* source), scaled down so that a store of MaxDocs documents spans pages.
limit == 2
\* normalize_language is tried on every upper/lower-casing of the first
\* MaxCase characters of each word of Words.
MaxCase == 3

\* -------------------------------------------------------------- constants
\* Option<T>: None, or Some(v) holding v
None == <<>>
Some(v) == <<v>>
\* the null byte "\0"
NUL == "NUL"

Min(a, b) == IF a <= b THEN a ELSE b
Last(s) == s[Len(s)]

\* ------------------------------------------------------ normalize_language
UpperChars == <<"A","B","C","D","E","F","G","H","I","J","K","L","M",
                "N","O","P","Q","R","S","T","U","V","W","X","Y","Z">>
LowerChars == <<"a","b","c","d","e","f","g","h","i","j","k","l","m",
                "n","o","p","q","r","s","t","u","v","w","x","y","z">>

\* u8::to_ascii_lowercase on one character: only 'A'..='Z' change.
AsciiLowerChar(c) ==
    IF \E n \in 1..26 : UpperChars[n] = c
    THEN LowerChars[CHOOSE n \in 1..26 : UpperChars[n] = c]
    ELSE c

\* str::to_ascii_lowercase
to_ascii_lowercase(input) == [n \in 1..Len(input) |-> AsciiLowerChar(input[n])]

\* The characters of a string put together (language.as_str()).
RECURSIVE as_str(_)
as_str(s) == IF s = <<>> THEN "" ELSE Head(s) \o as_str(Tail(s))

\* The arms of the match that return the lower-cased input unchanged.
MatchArms ==
    {"assembly", "ats", "bash", "clojure", "cobol", "coffeescript", "cpp", "c",
     "crystal", "csharp", "d", "elixir", "elm", "erlang", "fsharp", "go",
     "groovy", "haskell", "idris", "javascript", "julia", "kotlin", "lua",
     "mercury", "nim", "ocaml", "java", "perl", "php", "python", "raku",
     "ruby", "rust", "scala", "swift", "typescript", "plaintext"}

\* The wildcard arm of the match: the tag is not recognized (a notice is
\* printed and "plaintext" returned).
InvalidLanguage(input) ==
    LET language == as_str(to_ascii_lowercase(input))
    IN  language \notin MatchArms /\ language # "perl6"

\* normalize_language matching the input as it came.
normalize_language_case_sensitive(input) ==
    LET language == as_str(input)
    IN  IF language \in MatchArms THEN language
        ELSE IF language = "perl6" THEN "raku"
        ELSE "plaintext"

normalize_language(input) ==
    LET language == as_str(to_ascii_lowercase(input))
    IN  IF language \in MatchArms THEN language
        ELSE IF language = "perl6" THEN "raku"
        ELSE "plaintext"

\* enum Language with serde(rename_all = "lowercase"): the names of the
\* variants, lower-cased.
Language ==
    { <<"a","s","s","e","m","b","l","y">>,
      <<"a","t","s">>,
      <<"b","a","s","h">>,
      <<"c">>,
      <<"c","l","o","j","u","r","e">>,
      <<"c","o","b","o","l">>,
      <<"c","o","f","f","e","e","s","c","r","i","p","t">>,
      <<"c","p","p">>,
      <<"c","r","y","s","t","a","l">>,
      <<"c","s","h","a","r","p">>,
      <<"d">>,
      <<"e","l","i","x","i","r">>,
      <<"e","l","m">>,
      <<"e","r","l","a","n","g">>,
      <<"f","s","h","a","r","p">>,
      <<"g","o">>,
      <<"g","r","o","o","v","y">>,
      <<"h","a","s","k","e","l","l">>,
      <<"i","d","r","i","s">>,
      <<"j","a","v","a">>,
      <<"j","a","v","a","s","c","r","i","p","t">>,
      <<"j","u","l","i","a">>,
      <<"k","o","t","l","i","n">>,
      <<"l","u","a">>,
      <<"m","e","r","c","u","r","y">>,
      <<"n","i","m">>,
      <<"o","c","a","m","l">>,
      <<"p","e","r","l">>,
      <<"p","h","p">>,
      <<"p","y","t","h","o","n">>,
      <<"r","a","k","u">>,
      <<"r","u","b","y">>,
      <<"r","u","s","t">>,
      <<"s","c","a","l","a">>,
      <<"s","w","i","f","t">>,
      <<"t","y","p","e","s","c","r","i","p","t">> }

\* ------------------------------------------------------------- sanitizing
\* replace_nul that removes the first null byte only (replacen(.., 1)).
replace_nul_first(s) ==
    IF \E n \in 1..Len(s) : s[n] = NUL
    THEN LET first == CHOOSE n \in 1..Len(s) :
                        s[n] = NUL /\ \A m \in 1..(n - 1) : s[m] # NUL
         IN  SubSeq(s, 1, first - 1) \o SubSeq(s, first + 1, Len(s))
    ELSE s

\* str::replace("\0", "")
replace_nul(s) == SelectSeq(s, LAMBDA c : c # NUL)

\* ------------------------------------------------------------- timestamps
\* chrono::DateTime::parse_from_rfc3339: Ok(date-time with its offset) for a
\* well-formed string, Err otherwise.
Rfc3339 ==
    [s \in {"2015-03-01T10:00:00+01:00", "2016-07-09T08:30:00Z"} |->
        IF s = "2015-03-01T10:00:00+01:00"
        THEN [date |-> <<2015, 3, 1>>, time |-> <<10, 0, 0>>, offset |-> 60]
        ELSE [date |-> <<2016, 7, 9>>, time |-> <<8, 30, 0>>, offset |-> 0]]

parse_from_rfc3339(s) ==
    IF s \in DOMAIN Rfc3339 THEN [ok |-> TRUE, value |-> Rfc3339[s]]
    ELSE [ok |-> FALSE]

\* ------------------------------------------------------- the two databases
\* The profile table of the sink (user_id, snippets_api_id, username),
\* read once by main.
profile ==
    << [user_id |-> 11, snippets_api_id |-> "u1", username |-> "alice"],
       [user_id |-> 12, snippets_api_id |-> "u2", username |-> "bob"] >>

\* The shapes a document of the store is drawn from (CouchDocument without
\* its _id).
DocShapes ==
    { [created |-> "2015-03-01T10:00:00+01:00", modified |-> "2016-07-09T08:30:00Z",
       language |-> <<"P","H","P">>, title |-> <<"h","i">>, public |-> TRUE,
       owner |-> "u1",
       files |-> << [name |-> <<"m">>, content |-> <<1, 2>>] >>],
      [created |-> "2016-07-09T08:30:00Z", modified |-> "2016-07-09T08:30:00Z",
       language |-> <<"b","f">>, title |-> <<"a", NUL, "b", NUL>>, public |-> FALSE,
       owner |-> "ghost",
       files |-> << [name |-> <<NUL, "x">>, content |-> <<0>>],
                    [name |-> <<"y">>, content |-> <<>>] >>],
      [created |-> "2015-03-01T10:00:00+01:00", modified |-> "2015-03-01T10:00:00+01:00",
       language |-> <<"P","e","r","l","6">>, title |-> <<>>, public |-> TRUE,
       owner |-> "u2",
       files |-> <<>>],
      [created |-> "2015-03-01", modified |-> "2016-07-09T08:30:00Z",
       language |-> <<"g","o">>, title |-> <<"t">>, public |-> TRUE,
       owner |-> "u1",
       files |-> << [name |-> <<"g">>, content |-> <<7>>] >>] }

\* A row of the listing: the document of key k with the given shape.
CouchRow(k, shape) ==
    [doc |-> [_id |-> k, created |-> shape.created, modified |-> shape.modified,
              language |-> shape.language, title |-> shape.title,
              public |-> shape.public, owner |-> shape.owner,
              files |-> shape.files]]

\* The design document: the entry the listing returns first.  It has none
\* of the fields of CouchDocument.
DesignRow == [doc |-> [_id |-> 0]]

\* serde: a row decodes into CouchRow when its doc has every field of
\* CouchDocument.
Decodes(row) ==
    DOMAIN row.doc = {"_id", "created", "modified", "language", "title",
                      "public", "owner", "files"}

VARIABLES
    listing,            \* the store: the raw _all_docs listing, ascending by _id
    pc,                 \* where the process is
    run,                \* how many times the program was started
    failure,            \* what ended this run, "none" while it lives
    profiles,           \* main: the HashMap api_id -> Profile
    start_key,          \* process_loop: Option<String>
    rows_processed,     \* process_loop: usize
    documents,          \* process_loop: the CouchResponse of the last fetch
    fetches,            \* the requests this run has sent, and what each returned
    i,                  \* process_rows: index of the row of the for loop
    j,                  \* process_rows: index of the file of the inner loop
    snippet_id,         \* process_rows: the id the snippet insert returned
    prepared,           \* how many statements this run has prepared
    transaction,        \* the open transaction (Some: its uncommitted rows), or None
    txn,                \* how many transactions were opened on the sink
    commits,            \* how many transactions this run has committed
    code_snippet,       \* the sink: committed rows of code_snippet
    code_file,          \* the sink: committed rows of code_file
    code_snippet_id_seq, \* the sink: last value of the id sequence of code_snippet
    code_file_id_seq,   \* the sink: last value of the id sequence of code_file
    stdout,             \* the lines this run has printed
    norm_in,            \* normalize_language on its own: the input
    norm_out            \* normalize_language on its own: the output

vars == <<listing, pc, run, failure, profiles, start_key,
          rows_processed, documents, fetches, i, j, snippet_id, prepared,
          transaction, txn, commits, code_snippet, code_file,
          code_snippet_id_seq, code_file_id_seq, stdout, norm_in, norm_out>>

store == <<listing>>
sink == <<code_snippet, code_file>>
sequences == <<code_snippet_id_seq, code_file_id_seq>>
locals == <<profiles, start_key, rows_processed, documents, fetches, i, j,
            snippet_id, prepared>>
norm == <<norm_in, norm_out>>

\* ---------------------------------------------------------- get_documents
\* What the listing endpoint answers to the query parameters startkey,
\* skip and limit (descending=false, include_docs=true): the entries from
\* the first whose key is >= startkey on, without the first `skip` of them,
\* at most `lim` of them.
AllDocs(startkey, skip, lim) ==
    LET from == IF startkey = None THEN listing
                ELSE SelectSeq(listing, LAMBDA r : r.doc._id >= startkey[1])
    IN  SubSeq(from, skip + 1, Min(Len(from), skip + lim))

\* Request without the skip of the start key in the Some arm.
Request_keeps_start_key(optional_start_key, lim) ==
    <<optional_start_key, IF optional_start_key = None THEN 1 ELSE 0, lim>>

\* The query that get_documents sends: skip is 1 in both arms of the match.
Request(optional_start_key, lim) == <<optional_start_key, 1, lim>>

\* get_documents with the limit of the query left out: the response holds
\* every row after the start key.
get_documents_ignores_limit(optional_start_key, lim) ==
    LET q == Request(optional_start_key, lim)
    IN  [total_rows |-> Len(listing),
         offset |-> Min(Len(listing),
                        Len(listing) - Len(AllDocs(q[1], 0, Len(listing))) + q[2]),
         rows |-> AllDocs(q[1], q[2], Len(listing))]

\* get_documents when the response is ok: the body of the response.
\* total_rows is the number of entries of the whole listing, the design
\* document included; offset is the number of entries before the page.
get_documents(optional_start_key, lim) ==
    LET q == Request(optional_start_key, lim)
    IN  [total_rows |-> Len(listing),
         offset |-> Min(Len(listing),
                        Len(listing) - Len(AllDocs(q[1], 0, Len(listing))) + q[2]),
         rows |-> AllDocs(q[1], q[2], q[3])]

\* The record of a fetch: the query q and, when the response was ok and
\* decoded, the keys of the rows of the page.
Fetch(q, ok, page) ==
    [start_key |-> q[1], skip |-> q[2], limit |-> q[3], ok |-> ok,
     keys |-> [n \in 1..Len(page) |-> page[n].doc._id]]

\* process_rows returning the key of the first row of the page.
process_rows_result_first(page) ==
    IF page = <<>> THEN None ELSE Some(page[1].doc._id)

\* process_rows returning no cursor.
process_rows_result_none(page) == None

\* process_rows: the value it returns after the commit.
process_rows_result(page) ==
    IF page = <<>> THEN None ELSE Some(Last(page).doc._id)

\* ------------------------------------------------------------------- Init
Stores ==
    UNION { { <<DesignRow>> \o [k \in 1..n |-> CouchRow(k, shape[k])] :
                shape \in [1..n -> DocShapes] } : n \in 0..MaxDocs }

NoDocuments == [total_rows |-> 0, offset |-> 0, rows |-> <<>>]

Init ==
    /\ listing \in Stores
    /\ pc = "main"
    /\ run = 1
    /\ failure = "none"
    /\ profiles = <<>>
    /\ start_key = None
    /\ rows_processed = 0
    /\ documents = NoDocuments
    /\ fetches = <<>>
    /\ i = 0
    /\ j = 0
    /\ snippet_id = 0
    /\ prepared = 0
    /\ transaction = None
    /\ txn = 0
    /\ commits = 0
    /\ code_snippet = <<>>
    /\ code_file = <<>>
    /\ code_snippet_id_seq = 0
    /\ code_file_id_seq = 0
    /\ stdout = <<>>
    /\ norm_in = <<>>
    /\ norm_out = ""

\* ------------------------------------------------------------------- main
\* The rows of the profile table collected into a HashMap keyed by api_id
\* (a later row replaces an earlier one with the same key).
RECURSIVE collect(_)
collect(table) ==
    IF table = <<>> THEN <<>>
    ELSE LET row == Last(table)
             rest == collect(SubSeq(table, 1, Len(table) - 1))
             p == [user_id |-> row.user_id, api_id |-> row.snippets_api_id,
                   username |-> row.username]
         IN  [k \in (DOMAIN rest) \cup {p.api_id} |->
                 IF k = p.api_id THEN p ELSE rest[k]]

\* main: the environment is read, the sink is connected to, the profiles
\* are loaded, and process_loop(None, 0, ...) is entered.
main ==
    /\ pc = "main"
    /\ pc' = "get_documents"
    /\ profiles' = collect(profile)
    /\ start_key' = None
    /\ rows_processed' = 0
    /\ UNCHANGED <<store, run, failure, documents, fetches, i, j,
                   snippet_id, prepared, transaction, txn, commits, sink,
                   sequences, stdout, norm>>

\* A panic (an unwrap of an Err, or panic!): the process exits at once; the
\* open transaction, if any, is dropped without a commit and so rolled back.
Panic(cause) ==
    /\ pc' = "panicked"
    /\ failure' = cause
    /\ transaction' = None

\* main: a missing setting, a failed connection or a failed query.
main_fail ==
    /\ pc = "main"
    /\ \E cause \in {"env", "connect", "query"} : Panic(cause)
    /\ UNCHANGED <<store, run, locals, txn, commits, sink, sequences,
                   stdout, norm>>

\* ----------------------------------------------------------- process_loop
ProgressLine(x, y) == [line |-> "Processed", x |-> x, y |-> y]

\* process_loop taking a page shorter than the limit for the last one.
process_loop_short_page_ends ==
    /\ pc = "get_documents"
    /\ LET response == get_documents(start_key, limit)
       IN  /\ \A n \in 1..Len(response.rows) : Decodes(response.rows[n])
           /\ documents' = response
           /\ fetches' = Append(fetches, Fetch(Request(start_key, limit), TRUE,
                                               response.rows))
           /\ stdout' = Append(stdout,
                               ProgressLine(rows_processed, response.total_rows))
           /\ pc' = IF Len(response.rows) >= limit THEN "process_rows" ELSE "done"
    /\ UNCHANGED <<store, run, failure, profiles, start_key,
                   rows_processed, i, j, snippet_id, prepared, transaction, txn,
                   commits, sink, sequences, norm>>

\* process_loop up to the call of process_rows: the page is fetched and
\* decoded, the progress line printed, and either process_rows is entered
\* (documents_count > 0) or the function returns and main ends.
process_loop ==
    /\ pc = "get_documents"
    /\ LET response == get_documents(start_key, limit)
       IN  /\ \A n \in 1..Len(response.rows) : Decodes(response.rows[n])
           /\ documents' = response
           /\ fetches' = Append(fetches, Fetch(Request(start_key, limit), TRUE,
                                               response.rows))
           /\ stdout' = Append(stdout,
                               ProgressLine(rows_processed, response.total_rows))
           /\ pc' = IF Len(response.rows) > 0 THEN "process_rows" ELSE "done"
    /\ UNCHANGED <<store, run, failure, profiles, start_key,
                   rows_processed, i, j, snippet_id, prepared, transaction, txn,
                   commits, sink, sequences, norm>>

\* get_documents_fail with the request sent again after a failure.
get_documents_fail_retries ==
    /\ pc = "get_documents"
    /\ Len(fetches) < MaxDocs + 2
    /\ fetches' = Append(fetches, Fetch(Request(start_key, limit), FALSE, <<>>))
    /\ UNCHANGED <<store, pc, run, failure, profiles, start_key, rows_processed,
                   documents, i, j, snippet_id, prepared, transaction, txn,
                   commits, sink, sequences, stdout, norm>>

\* get_documents: the response is not ok, or its body does not decode.
get_documents_fail ==
    /\ pc = "get_documents"
    /\ fetches' = Append(fetches, Fetch(Request(start_key, limit), FALSE, <<>>))
    /\ \E cause \in {"status", "decode"} : Panic(cause)
    /\ UNCHANGED <<store, run, profiles, start_key, rows_processed,
                   documents, i, j, snippet_id, prepared, txn, commits, sink,
                   sequences, stdout, norm>>

\* ----------------------------------------------------------- process_rows
\* The page that process_rows works on.
rows == documents.rows

\* After with the outer loop left after its first pass.
After_first_row_only(r, f) ==
    IF f < Len(rows[r].doc.files) THEN <<"insert_file", r, f + 1>>
    ELSE <<"commit", r, f>>

\* Where the loops of process_rows stand after file f of row r is done
\* (f = 0: after the snippet of row r).
After(r, f) ==
    IF f < Len(rows[r].doc.files) THEN <<"insert_file", r, f + 1>>
    ELSE IF r < Len(rows) THEN <<"insert_snippet", r + 1, 0>>
    ELSE <<"commit", r, f>>

\* The two statements are prepared and the transaction is opened.
begin ==
    /\ pc = "process_rows"
    /\ prepared' = prepared + 2
    /\ txn' = txn + 1
    /\ transaction' =
          Some([id |-> txn + 1, code_snippet |-> <<>>, code_file |-> <<>>])
    /\ pc' = "insert_snippet"
    /\ i' = 1
    /\ j' = 0
    /\ snippet_id' = 0
    /\ UNCHANGED <<store, run, failure, profiles, start_key,
                   rows_processed, documents, fetches, commits, sink, sequences,
                   stdout, norm>>

\* prepare or transaction() returns an Err.
begin_fail ==
    /\ pc = "process_rows"
    /\ \E cause \in {"prepare", "transaction"} : Panic(cause)
    /\ UNCHANGED <<store, run, locals, txn, commits, sink, sequences,
                   stdout, norm>>

\* The notice normalize_language prints for an unrecognized tag.
Notices(input) ==
    IF InvalidLanguage(input)
    THEN << [line |-> "Invalid language",
             language |-> as_str(to_ascii_lowercase(input))] >>
    ELSE <<>>

\* user_id_of with the identity 0 for an owner that has no profile.
user_id_of_zero(owner) ==
    IF owner \in DOMAIN profiles THEN Some(profiles[owner].user_id) ELSE Some(0)

\* profiles.get(&owner).map(|profile| profile.user_id): an Option<i64>, of
\* which None is bound to the column as a null.
user_id_of(owner) ==
    IF owner \in DOMAIN profiles THEN Some(profiles[owner].user_id) ELSE None

\* CodeSnippet built from a document whose timestamps parse.
CodeSnippet(doc) ==
    [slug |-> doc._id,
     language |-> normalize_language(doc.language),
     title |-> replace_nul(doc.title),
     public |-> doc.public,
     user_id |-> user_id_of(doc.owner),
     created |-> parse_from_rfc3339(doc.created).value,
     modified |-> parse_from_rfc3339(doc.modified).value]

TimestampsParse(doc) ==
    /\ parse_from_rfc3339(doc.created).ok
    /\ parse_from_rfc3339(doc.modified).ok

\* One pass of the outer loop up to the inner loop: the CodeSnippet is built
\* and inserted, and the id the insert returns is kept.
insert_snippet ==
    /\ pc = "insert_snippet"
    /\ LET doc == rows[i].doc
           id == code_snippet_id_seq + 1
           snippet == CodeSnippet(doc)
           next == After(i, 0)
       IN  /\ TimestampsParse(doc)
           /\ stdout' = stdout \o Notices(doc.language)
           /\ code_snippet_id_seq' = id
           \* txn and run say which transaction and which run wrote the row
           /\ transaction' =
                 [transaction EXCEPT ![1].code_snippet =
                     Append(@, [id |-> id, slug |-> snippet.slug,
                                language |-> snippet.language,
                                title |-> snippet.title,
                                public |-> snippet.public,
                                user_id |-> snippet.user_id,
                                created |-> snippet.created,
                                modified |-> snippet.modified,
                                txn |-> transaction[1].id, run |-> run])]
           /\ snippet_id' = id
           /\ pc' = next[1]
           /\ i' = next[2]
           /\ j' = next[3]
    /\ UNCHANGED <<store, run, failure, profiles, start_key,
                   rows_processed, documents, fetches, prepared, txn, commits,
                   sink, code_file_id_seq, norm>>

\* parse_fail without a transaction around the page: the rows inserted
\* before the panic stay.
parse_fail_autocommit ==
    /\ pc = "insert_snippet"
    /\ ~TimestampsParse(rows[i].doc)
    /\ stdout' = stdout \o Notices(rows[i].doc.language)
    /\ pc' = "panicked"
    /\ failure' = "timestamp"
    /\ code_snippet' = code_snippet \o transaction[1].code_snippet
    /\ code_file' = code_file \o transaction[1].code_file
    /\ transaction' = None
    /\ UNCHANGED <<store, run, locals, txn, commits, sequences, norm>>

\* A created or modified that is not RFC 3339: the unwrap panics, after
\* normalize_language has run (the fields are built in order).
parse_fail ==
    /\ pc = "insert_snippet"
    /\ ~TimestampsParse(rows[i].doc)
    /\ stdout' = stdout \o Notices(rows[i].doc.language)
    /\ Panic("timestamp")
    /\ UNCHANGED <<store, run, locals, txn, commits, sink, sequences,
                   norm>>

\* The sink refuses the snippet insert.
insert_snippet_fail ==
    /\ pc = "insert_snippet"
    /\ TimestampsParse(rows[i].doc)
    /\ stdout' = stdout \o Notices(rows[i].doc.language)
    /\ Panic("insert")
    /\ UNCHANGED <<store, run, locals, txn, commits, sink, sequences,
                   norm>>

\* insert_file with the index of the row bound as the parent id.
insert_file_wrong_parent ==
    /\ pc = "insert_file"
    /\ LET file == rows[i].doc.files[j]
           id == code_file_id_seq + 1
           next == After(i, j)
       IN  /\ code_file_id_seq' = id
           /\ transaction' =
                 [transaction EXCEPT ![1].code_file =
                     Append(@, [id |-> id, code_snippet_id |-> i,
                                name |-> replace_nul(file.name),
                                content |-> file.content,
                                txn |-> transaction[1].id])]
           /\ pc' = next[1]
           /\ i' = next[2]
           /\ j' = next[3]
    /\ UNCHANGED <<store, run, failure, profiles, start_key,
                   rows_processed, documents, fetches, snippet_id, prepared,
                   txn, commits, sink, code_snippet_id_seq, stdout, norm>>

\* insert_file with the file row put before the rows already inserted.
insert_file_prepends ==
    /\ pc = "insert_file"
    /\ LET file == rows[i].doc.files[j]
           id == code_file_id_seq + 1
           next == After(i, j)
       IN  /\ code_file_id_seq' = id
           /\ transaction' =
                 [transaction EXCEPT ![1].code_file =
                     <<[id |-> id, code_snippet_id |-> snippet_id,
                        name |-> replace_nul(file.name),
                        content |-> file.content,
                        txn |-> transaction[1].id]>> \o @]
           /\ pc' = next[1]
           /\ i' = next[2]
           /\ j' = next[3]
    /\ UNCHANGED <<store, run, failure, profiles, start_key,
                   rows_processed, documents, fetches, snippet_id, prepared,
                   txn, commits, sink, code_snippet_id_seq, stdout, norm>>

\* One pass of the inner loop: the file row of file j of row i.
insert_file ==
    /\ pc = "insert_file"
    /\ LET file == rows[i].doc.files[j]
           id == code_file_id_seq + 1
           next == After(i, j)
       IN  /\ code_file_id_seq' = id
           /\ transaction' =
                 [transaction EXCEPT ![1].code_file =
                     Append(@, [id |-> id, code_snippet_id |-> snippet_id,
                                name |-> replace_nul(file.name),
                                content |-> file.content,
                                txn |-> transaction[1].id])]
           /\ pc' = next[1]
           /\ i' = next[2]
           /\ j' = next[3]
    /\ UNCHANGED <<store, run, failure, profiles, start_key,
                   rows_processed, documents, fetches, snippet_id, prepared,
                   txn, commits, sink, code_snippet_id_seq, stdout, norm>>

\* The sink refuses the file insert.
insert_file_fail ==
    /\ pc = "insert_file"
    /\ Panic("insert")
    /\ UNCHANGED <<store, run, locals, txn, commits, sink, sequences,
                   stdout, norm>>

\* commit with the count advanced by the page size asked for.
commit_counts_limit ==
    /\ pc = "commit"
    /\ code_snippet' = code_snippet \o transaction[1].code_snippet
    /\ code_file' = code_file \o transaction[1].code_file
    /\ transaction' = None
    /\ commits' = commits + 1
    /\ start_key' = process_rows_result(rows)
    /\ rows_processed' = rows_processed + limit
    /\ pc' = "get_documents"
    /\ UNCHANGED <<store, run, failure, profiles, documents, fetches,
                   i, j, snippet_id, prepared, txn, sequences, stdout, norm>>

\* commit with the cursor of the recursive call left as it was.
commit_keeps_cursor ==
    /\ pc = "commit"
    /\ code_snippet' = code_snippet \o transaction[1].code_snippet
    /\ code_file' = code_file \o transaction[1].code_file
    /\ transaction' = None
    /\ commits' = commits + 1
    /\ rows_processed' = rows_processed + Len(documents.rows)
    /\ pc' = "get_documents"
    /\ UNCHANGED <<store, run, failure, profiles, start_key, documents, fetches,
                   i, j, snippet_id, prepared, txn, sequences, stdout, norm>>

\* commit with the recursive call made before the transaction is committed.
commit_after_recursion ==
    /\ pc = "commit"
    /\ start_key' = process_rows_result(rows)
    /\ rows_processed' = rows_processed + Len(documents.rows)
    /\ pc' = "get_documents"
    /\ UNCHANGED <<store, run, failure, profiles, documents, fetches,
                   i, j, snippet_id, prepared, transaction, txn, commits, sink,
                   sequences, stdout, norm>>

\* The commit, the return of process_rows and the recursive call of
\* process_loop with the returned cursor and the advanced count.
commit ==
    /\ pc = "commit"
    /\ code_snippet' = code_snippet \o transaction[1].code_snippet
    /\ code_file' = code_file \o transaction[1].code_file
    /\ transaction' = None
    /\ commits' = commits + 1
    /\ start_key' = process_rows_result(rows)
    /\ rows_processed' = rows_processed + Len(documents.rows)
    /\ pc' = "get_documents"
    /\ UNCHANGED <<store, run, failure, profiles, documents, fetches,
                   i, j, snippet_id, prepared, txn, sequences, stdout, norm>>

\* The commit returns an Err.
commit_fail ==
    /\ pc = "commit"
    /\ Panic("commit")
    /\ UNCHANGED <<store, run, locals, txn, commits, sink, sequences,
                   stdout, norm>>

\* ------------------------------------------------------- the process's life
Terminal == {"done", "panicked", "killed"}

\* The process is interrupted from outside, wherever it is.
kill ==
    /\ pc \notin Terminal
    /\ pc' = "killed"
    /\ failure' = "killed"
    /\ transaction' = None
    /\ UNCHANGED <<store, run, locals, txn, commits, sink, sequences,
                   stdout, norm>>

Died == {"panicked", "killed"}

\* The operator starts the program again after a run that died: a new
\* process, the same store and the same sink.
restart ==
    /\ pc \in Died
    /\ run < MaxRuns
    /\ run' = run + 1
    /\ pc' = "main"
    /\ failure' = "none"
    /\ profiles' = <<>>
    /\ start_key' = None
    /\ rows_processed' = 0
    /\ documents' = NoDocuments
    /\ fetches' = <<>>
    /\ i' = 0
    /\ j' = 0
    /\ snippet_id' = 0
    /\ prepared' = 0
    /\ commits' = 0
    /\ stdout' = <<>>
    /\ UNCHANGED <<store, transaction, txn, sink, sequences, norm>>

Next ==
    \/ main
    \/ main_fail
    \/ process_loop
    \/ get_documents_fail
    \/ begin
    \/ begin_fail
    \/ insert_snippet
    \/ parse_fail
    \/ insert_snippet_fail
    \/ insert_file
    \/ insert_file_fail
    \/ commit
    \/ commit_fail
    \/ kill
    \/ restart

Spec == Init /\ [][Next]_vars

\* ------------------------------------------- normalize_language on its own
\* u8::to_ascii_uppercase on one character, to build the inputs.
AsciiUpperChar(c) ==
    IF \E n \in 1..26 : LowerChars[n] = c
    THEN UpperChars[CHOOSE n \in 1..26 : LowerChars[n] = c]
    ELSE c

\* The words the inputs are built from: every tag of the vocabulary, the
\* alias, the fallback and strings that are no tag.
Words ==
    Language \cup
    { <<"p","l","a","i","n","t","e","x","t">>, <<"p","e","r","l","6">>,
      <<"p","e","r","l","5">>, <<"b","r","a","i","n","f","u","c","k">>,
      <<>>, <<"c","c">>, <<"c","+","+">>, <<" ","g","o">>, <<"g","o"," ">>,
      <<"e","l","m","o">>, <<"r","a","k">>, <<"j","a","v","a","s">>,
      <<"c","#">>, <<"p","y","t","h","0","n">>, <<"6","p","e","r","l">> }

\* Every upper/lower-casing of the first MaxCase characters of w.
CaseVariants(w) ==
    { [n \in 1..Len(w) |-> IF n \in S THEN AsciiUpperChar(w[n]) ELSE w[n]] :
        S \in SUBSET (1..Min(MaxCase, Len(w))) }

Inputs == UNION { CaseVariants(w) : w \in Words }

InitNorm ==
    /\ listing = <<DesignRow>>
    /\ pc = "main"
    /\ run = 1
    /\ failure = "none"
    /\ profiles = <<>>
    /\ start_key = None
    /\ rows_processed = 0
    /\ documents = NoDocuments
    /\ fetches = <<>>
    /\ i = 0
    /\ j = 0
    /\ snippet_id = 0
    /\ prepared = 0
    /\ transaction = None
    /\ txn = 0
    /\ commits = 0
    /\ code_snippet = <<>>
    /\ code_file = <<>>
    /\ code_snippet_id_seq = 0
    /\ code_file_id_seq = 0
    /\ stdout = <<>>
    /\ norm_in \in Inputs
    /\ norm_out = ""

\* normalize_language(&input): the tag returned, and the notice printed by
\* the wildcard arm.
normalize ==
    /\ norm_out = ""
    /\ norm_out' = normalize_language(norm_in)
    /\ stdout' = stdout \o Notices(norm_in)
    /\ UNCHANGED <<store, pc, run, failure, locals, transaction, txn,
                   commits, sink, sequences, norm_in>>

NextNorm == normalize

SpecNorm == InitNorm /\ [][NextNorm]_vars

\* ================================================================= claims
\* The non-header documents of the store, in the order of the listing.
Docs == [n \in 1..(Len(listing) - 1) |-> listing[n + 1].doc]
N == Len(Docs)
Keys == [n \in 1..N |-> Docs[n]._id]
DocOf(k) == Docs[CHOOSE n \in 1..N : Docs[n]._id = k]

\* The rows of code_snippet whose slug is k.
SnippetRows(k) == {n \in 1..Len(code_snippet) : code_snippet[n].slug = k}

\* Every non-header document has exactly one snippet row, and there is no
\* other row.
ExactlyOnce ==
    /\ \A n \in 1..N : Cardinality(SnippetRows(Keys[n])) = 1
    /\ Len(code_snippet) = N

\* C1: when a run died and the program was started again and ran to Done,
\* the sink holds exactly one snippet row for every non-header document.
C1_RestartNoLossNoDuplication ==
    (pc = "done" /\ run > 1) => ExactlyOnce

\* What C2 says of a run that reached Done with all documents in one page.
OnePageRun ==
    /\ Len(fetches) = 2
    /\ fetches[1].start_key = None
    /\ fetches[1].keys = Keys
    /\ \A a, b \in 1..Len(Keys) : a < b => Keys[a] < Keys[b]
    /\ Len(code_snippet) = N
    /\ \A a, b \in 1..Len(code_snippet) :
          a # b => code_snippet[a].id # code_snippet[b].id
    /\ commits = 1
    /\ fetches[2].start_key = Some(Keys[N])
    /\ fetches[2].keys = <<>>

\* C2 as stated: an uninterrupted failure-free run over N <= limit documents
\* fetches one page with all N, writes N rows with distinct ids, commits
\* once, fetches again with the last key as cursor and gets no rows; and on
\* Done every document has exactly one row.
C2_OnePageRunAnyN ==
    (pc = "done" /\ run = 1) =>
        /\ ExactlyOnce
        /\ (N <= limit => OnePageRun)

\* C2, amended to 1 <= N <= limit for the single page, the single commit
\* and the second fetch.
C2_OnePageRun ==
    (pc = "done" /\ run = 1) =>
        /\ ExactlyOnce
        /\ (1 <= N /\ N <= limit => OnePageRun)

C2_Witness ==
    /\ pc = "done"
    /\ run = 1
    /\ N = limit
    /\ commits = 1
    /\ Len(code_snippet) = N

\* C3: when the processing of a document of a page fails (timestamp,
\* insert) or the commit fails, the process exits with no snippet row and
\* no file row of that page visible, the rows inserted for the earlier
\* documents of the page included, and with the rows committed before left
\* as they were.
C3_PageAtomicity ==
    [][(pc' = "panicked" /\ failure' \in {"timestamp", "insert", "commit"}) =>
          /\ code_snippet' = code_snippet
          /\ code_file' = code_file
          /\ transaction' = None
          /\ \A n \in 1..Len(code_snippet') : code_snippet'[n].txn # txn'
          /\ \A n \in 1..Len(code_file') : code_file'[n].txn # txn']_vars

C3_Witness ==
    /\ pc = "panicked"
    /\ failure \in {"timestamp", "insert"}
    /\ i = 2
    /\ Len(code_snippet) > 0

\* The file rows of the snippet row s, in the order of the table.
FilesOf(s) == SelectSeq(code_file, LAMBDA f : f.code_snippet_id = s.id)

\* C4: every visible file row references a visible snippet row committed in
\* the same transaction, and every visible snippet row has one file row for
\* each attached file of its document.
C4_NoOrphans ==
    /\ \A n \in 1..Len(code_file) :
          \E m \in 1..Len(code_snippet) :
              /\ code_snippet[m].id = code_file[n].code_snippet_id
              /\ code_snippet[m].txn = code_file[n].txn
    /\ \A m \in 1..Len(code_snippet) :
          LET files == DocOf(code_snippet[m].slug).files
              written == FilesOf(code_snippet[m])
          IN  /\ Len(written) = Len(files)
              /\ \A n \in 1..Len(files) :
                    /\ written[n].content = files[n].content
                    /\ written[n].txn = code_snippet[m].txn

C4_Witness ==
    /\ Len(code_snippet) >= 2
    /\ \E m \in 1..Len(code_snippet) : Len(FilesOf(code_snippet[m])) = 2
    /\ \E m \in 1..Len(code_snippet) : Len(FilesOf(code_snippet[m])) = 0

\* C5: when process_rows commits a page with keys k1..kn it returns kn as
\* the cursor; an empty page has no cursor and after it the driver fetches
\* nothing more.
C5_CursorDerivation ==
    [][/\ (pc = "commit" /\ pc' = "get_documents") =>
             /\ fetches[Len(fetches)].keys # <<>>
             /\ start_key' = Some(Last(fetches[Len(fetches)].keys))
       /\ (pc = "get_documents" /\ pc' \notin Died /\ documents'.rows = <<>>) =>
             /\ pc' = "done"
             /\ process_rows_result(documents'.rows) = None
       /\ (pc = "done" /\ run' = run) => fetches' = fetches]_vars

C5_Witness ==
    /\ pc = "done"
    /\ Len(fetches) = 3
    /\ fetches[2].start_key = Some(2)
    /\ fetches[3].start_key = Some(3)

\* The entries of the listing after key k, and the first n of a sequence.
EntriesAfter(k) == SelectSeq(listing, LAMBDA r : r.doc._id > k)
Take(s, n) == SubSeq(s, 1, Min(n, Len(s)))
KeysOf(page) == [n \in 1..Len(page) |-> page[n].doc._id]

\* C6: a fetch with cursor kn returns no document with key <= kn and
\* returns the next at most limit entries after kn; a fetch without a
\* cursor skips exactly the first entry of the listing.
C6_ResumeOrdering ==
    \A n \in 1..Len(fetches) :
        LET f == fetches[n]
        IN  f.ok =>
              IF f.start_key = None
              THEN f.keys = KeysOf(Take(Tail(listing), f.limit))
              ELSE /\ \A m \in 1..Len(f.keys) : f.keys[m] > f.start_key[1]
                   /\ f.keys = KeysOf(Take(EntriesAfter(f.start_key[1]), f.limit))

C6_Witness ==
    \E n \in 1..Len(fetches) :
        /\ fetches[n].ok
        /\ fetches[n].start_key # None
        /\ fetches[n].keys # <<>>
        /\ Len(fetches[1].keys) = limit

\* C7: the process reaches its successful end only by a fetch that returned
\* an empty page; a failure ends the process in the same step, with the
\* sink as the last commit left it, and the ended process does nothing more.
C7_TerminatesOnlyOnEmptyPage ==
    [][/\ (pc # "done" /\ pc' = "done") =>
             /\ pc = "get_documents"
             /\ Len(fetches') = Len(fetches) + 1
             /\ Last(fetches').ok
             /\ Last(fetches').keys = <<>>
       /\ (pc # "panicked" /\ pc' = "panicked") =>
             /\ code_snippet' = code_snippet
             /\ code_file' = code_file
             /\ transaction' = None
       /\ (pc \in {"done", "panicked"} /\ run' = run) => UNCHANGED vars]_vars

C7_Witness ==
    /\ pc = "done"
    /\ commits = 2
    /\ Last(fetches).keys = <<>>

\* Does the line of output show the natural key k?
ShowsKey(line, k) == "key" \in DOMAIN line /\ line.key = k

\* C8: when the run aborts after at least one page was committed, the
\* output printed so far contains the natural key of the last committed
\* document.
C8_CursorInOutput ==
    (pc \in Died /\ commits >= 1) =>
        \E n \in 1..Len(stdout) : ShowsKey(stdout[n], start_key[1])

\* Two strings that differ at most in the case of their ASCII letters.
EqIgnoreAsciiCase(a, b) ==
    /\ Len(a) = Len(b)
    /\ \A n \in 1..Len(a) :
          \/ a[n] = b[n]
          \/ \E c \in 1..26 : {a[n], b[n]} = {UpperChars[c], LowerChars[c]}

Plaintext == <<"p","l","a","i","n","t","e","x","t">>
Perl6 == <<"p","e","r","l","6">>

\* C9: normalize_language returns the canonical tag that the input equals
\* up to case, "raku" for an input equal to "perl6" up to case, "plaintext"
\* for every other input, and so always a tag of the vocabulary.
C9_NormalizeLanguage ==
    norm_out # "" =>
        /\ \A tag \in Language \cup {Plaintext} :
              EqIgnoreAsciiCase(norm_in, tag) => norm_out = as_str(tag)
        /\ EqIgnoreAsciiCase(norm_in, Perl6) => norm_out = "raku"
        /\ (\A tag \in Language \cup {Plaintext, Perl6} :
                ~EqIgnoreAsciiCase(norm_in, tag)) => norm_out = "plaintext"
        /\ norm_out \in {as_str(tag) : tag \in Language \cup {Plaintext}}

C9_Witness ==
    /\ norm_in = <<"P","E","R","l","6">>
    /\ norm_out = "raku"

\* The rows of code_snippet, committed or inserted in the open transaction.
InsertedSnippets ==
    code_snippet \o (IF transaction = None THEN <<>> ELSE transaction[1].code_snippet)

\* The rows of the profile table with the reference key owner.
ProfilesOf(owner) ==
    {n \in 1..Len(profile) : profile[n].snippets_api_id = owner}

\* C10: a document whose owner is a key of the profile map is written with
\* that profile's identity, any other with a null owner; a document with an
\* unrecognized language is written as "plaintext"; and a run that reaches
\* Done has inserted and committed a row for every document, whatever its
\* owner and its language.
C10_OwnerResolution ==
    /\ \A n \in 1..Len(InsertedSnippets) :
          LET row == InsertedSnippets[n]
              doc == DocOf(row.slug)
          IN  /\ IF ProfilesOf(doc.owner) = {} THEN row.user_id = None
                 ELSE \E p \in ProfilesOf(doc.owner) :
                         row.user_id = Some(profile[p].user_id)
              /\ InvalidLanguage(doc.language) => row.language = "plaintext"
    /\ pc = "done" => \A n \in 1..N : SnippetRows(Keys[n]) # {}

C10_Witness ==
    /\ pc = "done"
    /\ \E n \in 1..Len(code_snippet) :
          /\ code_snippet[n].user_id = None
          /\ code_snippet[n].language = "plaintext"
          /\ InvalidLanguage(DocOf(code_snippet[n].slug).language)
    /\ \E m \in 1..Len(code_snippet) : code_snippet[m].user_id = Some(11)

\* The progress lines among the lines printed.
ProgressLines == SelectSeq(stdout, LAMBDA l : l.line = "Processed")

\* The fetches of this run that returned a page.
PagesFetched == SelectSeq(fetches, LAMBDA f : f.ok)

RECURSIVE SumLen(_)
SumLen(pages) ==
    IF pages = <<>> THEN 0 ELSE Len(Head(pages).keys) + SumLen(Tail(pages))

\* C11: every iteration prints one line "Processed X of Y", X the count
\* processed before the page of the iteration and Y the total of the
\* fetch; the last line of a failure-free run over N documents is
\* "Processed N of N".
C11_ProgressLines ==
    /\ Len(ProgressLines) = Len(PagesFetched)
    /\ \A n \in 1..Len(ProgressLines) :
          /\ ProgressLines[n].x = SumLen(SubSeq(PagesFetched, 1, n - 1))
          /\ ProgressLines[n].y = Len(listing)
    /\ (pc = "done" /\ run = 1) => Last(ProgressLines) = ProgressLine(N, N)

\* The string s without its null bytes, the other characters in order.
RECURSIVE WithoutNul(_)
WithoutNul(s) ==
    IF s = <<>> THEN <<>>
    ELSE IF Head(s) = NUL THEN WithoutNul(Tail(s))
    ELSE <<Head(s)>> \o WithoutNul(Tail(s))

\* C12: every title and every file name written has no null byte and is
\* the source string with its null bytes deleted and the other characters
\* in their order.
C12_Sanitization ==
    \A m \in 1..Len(code_snippet) :
        LET row == code_snippet[m]
            doc == DocOf(row.slug)
            written == FilesOf(row)
        IN  /\ \A n \in 1..Len(row.title) : row.title[n] # NUL
            /\ row.title = WithoutNul(doc.title)
            /\ (\A n \in 1..Len(doc.title) : doc.title[n] # NUL)
                  => row.title = doc.title
            /\ \A f \in 1..Len(written) :
                  /\ \A n \in 1..Len(written[f].name) : written[f].name[n] # NUL
                  /\ written[f].name = WithoutNul(doc.files[f].name)

C12_Witness ==
    \E m \in 1..Len(code_snippet) :
        /\ code_snippet[m].title = <<"a", "b">>
        /\ DocOf(code_snippet[m].slug).title = <<"a", NUL, "b", NUL>>
        /\ \E f \in 1..Len(code_file) :
              /\ code_file[f].code_snippet_id = code_snippet[m].id
              /\ code_file[f].name = <<"x">>

\* C13: over a run that writes any number of pages, each of the two insert
\* statements is prepared exactly once (prepared counts both).
C13_PreparedOncePerRun ==
    commits >= 1 => prepared = 2

\* C14: a fetch is sent only when no transaction is open and the page of
\* every earlier fetch of the run has been committed; a transaction is
\* opened only when none is open.
C14_StrictlySequential ==
    [][/\ (run' = run /\ Len(fetches') = Len(fetches) + 1) =>
             /\ transaction = None
             /\ transaction' = None
             /\ commits = Len(fetches)
       /\ txn' # txn => (transaction = None /\ txn' = txn + 1)]_vars

C14_Witness ==
    /\ pc = "insert_file"
    /\ transaction # None
    /\ commits = 1
    /\ Len(fetches) = 2

\* C15: a fetch whose status is not success or whose body does not decode
\* ends the run: no progress line is printed for it, no transaction is
\* opened, the sink stays as the last commit left it, and the run sends no
\* further fetch.
C15_FetchFailureIsFatal ==
    [][/\ (run' = run /\ Len(fetches') = Len(fetches) + 1 /\ ~Last(fetches').ok) =>
             /\ pc' = "panicked"
             /\ failure' \in {"status", "decode"}
             /\ stdout' = stdout
             /\ code_snippet' = code_snippet
             /\ code_file' = code_file
             /\ txn' = txn
             /\ transaction' = None
       /\ (pc = "panicked" /\ run' = run) => UNCHANGED vars]_vars

C15_Witness ==
    /\ pc = "panicked"
    /\ failure = "status"
    /\ commits = 1
    /\ Len(fetches) = 2
    /\ Len(ProgressLines) = 1

\* C16: the cursor is absent on the first fetch of a run and on no other.
C16_CursorAbsentOnlyFirst ==
    \A n \in 1..Len(fetches) : (fetches[n].start_key = None) <=> (n = 1)

C16_Witness ==
    /\ Len(fetches) = 3
    /\ fetches[1].start_key = None
    /\ fetches[3].start_key # None
    /\ run = 2

\* The rows of code_snippet that this run committed.
RowsOfRun == SelectSeq(code_snippet, LAMBDA row : row.run = run)

\* C17: a committed page advances rows_processed by the number of its
\* documents and sets the cursor to its last key, so that at every fetch
\* rows_processed is the number of snippet rows this run committed and the
\* cursor is the key of the last document committed.
C17_CountAndCursor ==
    pc = "get_documents" =>
        /\ rows_processed = Len(RowsOfRun)
        /\ rows_processed = SumLen(PagesFetched)
        /\ IF commits = 0 THEN start_key = None /\ rows_processed = 0
           ELSE start_key = Some(Last(code_snippet).slug)

C17_Witness ==
    /\ pc = "get_documents"
    /\ run = 2
    /\ rows_processed = 3
    /\ Len(code_snippet) > 3
    /\ start_key = Some(3)

\* The cursor of fetch n as a position in natural-key order; an absent
\* cursor stands before every key.
CursorOf(n) ==
    IF fetches[n].start_key = None THEN -1 ELSE fetches[n].start_key[1]

\* C18: the cursors of the successive fetches of a run increase strictly,
\* and no document is fetched by two pages or written twice by the run.
C18_NoBackwardTransitions ==
    /\ \A a, b \in 1..Len(fetches) : a < b => CursorOf(a) < CursorOf(b)
    /\ \A a, b \in 1..Len(fetches) :
          a # b => \A x \in 1..Len(fetches[a].keys), y \in 1..Len(fetches[b].keys) :
                      fetches[a].keys[x] # fetches[b].keys[y]
    /\ \A a, b \in 1..Len(RowsOfRun) :
          a # b => RowsOfRun[a].slug # RowsOfRun[b].slug

C18_Witness ==
    /\ Len(fetches) = 3
    /\ fetches[2].start_key = Some(2)
    /\ fetches[3].start_key = Some(3)
    /\ Len(RowsOfRun) = 3

\* ------------------------------------------------- the failure-free run
\* The stores whose documents all have timestamps that parse.
InitLive ==
    /\ Init
    /\ \A n \in 2..Len(listing) : TimestampsParse(listing[n].doc)

\* The steps of a run in which the store answers every request, the sink
\* accepts every statement and nothing interrupts the process.
NextLive ==
    \/ main
    \/ process_loop
    \/ begin
    \/ insert_snippet
    \/ insert_file
    \/ commit

\* The process is one thread that keeps running until main returns.
SpecLive == InitLive /\ [][NextLive]_vars /\ WF_vars(NextLive)

\* ceil(N / limit)
Pages == (N + limit - 1) \div limit

\* C19: over a finite static store with N documents and with no failure
\* the run reaches Done, and at Done it has made ceil(N/limit) + 1 fetches,
\* opened ceil(N/limit) transactions and committed each of them; the last
\* fetch returned an empty page.
C19_Termination ==
    /\ <>(pc = "done")
    /\ [](pc = "done" =>
             /\ Len(fetches) = Pages + 1
             /\ commits = Pages
             /\ txn = Pages
             /\ transaction = None
             /\ Last(fetches).keys = <<>>)

C19_Witness ==
    /\ pc = "done"
    /\ N = limit
    /\ Len(fetches) = 2
    /\ Last(fetches).keys = <<>>
    /\ txn = 1

\* C20: in a first run over a static store the visible snippet rows are,
\* in order, the rows of the first Min(commits * limit, N) documents in
\* ascending key order, with ascending ids; the file rows of a snippet are
\* those of its document in the original order with ascending ids, file
\* rows follow the order of their snippets, and a file row inserted in the
\* open transaction refers to a snippet row inserted in it before.
C20_PrefixInOrder ==
    run = 1 =>
        /\ \A a, b \in 1..N : a < b => Keys[a] < Keys[b]
        /\ Len(code_snippet) = Min(commits * limit, N)
        /\ \A n \in 1..Len(code_snippet) : code_snippet[n].slug = Keys[n]
        /\ \A a, b \in 1..Len(code_snippet) :
              a < b => code_snippet[a].id < code_snippet[b].id
        /\ \A a, b \in 1..Len(code_file) :
              a < b => /\ code_file[a].id < code_file[b].id
                       /\ code_file[a].code_snippet_id <= code_file[b].code_snippet_id
        /\ \A m \in 1..Len(code_snippet) :
              LET files == DocOf(code_snippet[m].slug).files
                  written == FilesOf(code_snippet[m])
              IN  /\ Len(written) = Len(files)
                  /\ \A n \in 1..Len(files) :
                        /\ written[n].name = replace_nul(files[n].name)
                        /\ written[n].content = files[n].content
        /\ transaction # None =>
              LET t == transaction[1]
              IN  /\ \A n \in 1..Len(t.code_file) :
                        \E m \in 1..Len(t.code_snippet) :
                            /\ t.code_snippet[m].id = t.code_file[n].code_snippet_id
                            /\ t.code_snippet[m].slug = rows[m].doc._id
                            /\ \E f \in 1..Len(rows[m].doc.files) :
                                  t.code_file[n].content = rows[m].doc.files[f].content
                  /\ \A a, b \in 1..Len(t.code_file) :
                        a < b => t.code_file[a].id < t.code_file[b].id

C20_Witness ==
    /\ run = 1
    /\ commits = 1
    /\ Len(code_snippet) = limit
    /\ \E m \in 1..Len(code_snippet) : Len(FilesOf(code_snippet[m])) = 2
    /\ transaction # None
    /\ Len(transaction[1].code_file) = 2

====
